---- MODULE Spec2Model ----
(***************************************************************************)
(* Block detection of the SuperCollider client (client/src/sc.ts):         *)
(* stripCommentsAndStrings (the masker) and findCodeBlock (the block       *)
(* locator), applied to a document that is being edited.                   *)
(*                                                                         *)
(* SpecLoc and SpecWs run findCodeBlock on documents of parentheses, line  *)
(* breaks, ";" and either an ordinary character or a space; SpecLit on     *)
(* documents with comments and strings; SpecMask runs the masker alone.    *)
(*                                                                         *)
(* A text is a sequence of one-character strings; offsets are 0-based as   *)
(* in the source, At(s, i) is s[i] of the source.                          *)
(***************************************************************************)
EXTENDS Integers, Sequences, FiniteSets, TLC

VARIABLES text, offset, stripped, cands, region, result, called,
          scan, scanTop,
          sclangProcess, procs, timers, written, calls,
          bracketChar, matchOffset, selection,
          sclangBar, shown

vars == <<text, offset, stripped, cands, region, result, called,
          scan, scanTop, sclangProcess, procs, timers, written, calls,
          bracketChar, matchOffset, selection, sclangBar, shown>>

\* the module-level state of sc.ts and what the run time holds for it, the
\* status bar item of extension.js and the error messages shown
procVars == <<sclangProcess, procs, timers, written, calls, sclangBar, shown>>

\* the last call of the bracket matcher and of the bracket selection
selVars == <<bracketChar, matchOffset, selection>>

\* the document, the editor and the last call on them
docVars == <<text, offset, stripped, cands, region, result, called, scan, scanTop,
             bracketChar, matchOffset, selection>>

\* ---- bounds of the model ------------------------------------------------
MaxLen == 6
MaxLitLen == 5
MaxMaskLen == 5
MaxNestLen == 8
MaxRegionLen == 5
MaxScanLen == 4
MaxCalls == 2
MaxBrkLen == 5
MaxSelLen == 5

\* ---- characters -----------------------------------------------------------
LocChars == {"(", ")", "\n", ";", "a"}
WsChars == {"(", ")", " ", "\n", ";"}
LitChars == {"(", ")", "\n", "/", "*", "\""}
NestChars == {"/", "*", "\n", "a"}
\* the documents an editor is opened on, besides the empty one
Docs == {<<" ", "a">>}
SelChars == {"(", ")", "[", "]", "\""}
BrkChars == {"(", ")", "[", "/", "\"", "\n"}
RegionChars == {"/", "*", "\"", "'", "\\", "$", "\n", "a"}
ScanChars == {"/", "*", "\"", "'", "\\", "\n", "a"}
MaskChars == {"/", "*", "\"", "'", "\\", "$", "\n", "\r", "a"}

Undefined == "undefined"
Hole == ""

\* s[i] of the source: undefined outside 0 .. length-1
At(s, i) == IF i >= 0 /\ i < Len(s) THEN s[i + 1] ELSE Undefined

\* text.substring(a, b) for 0 <= a <= b <= length
Substring(s, a, b) == SubSeq(s, a + 1, b)

\* out[i] = c on a JavaScript array: a write past the end grows the array,
\* leaving holes between the old end and i
RECURSIVE Holes(_)
Holes(n) == IF n <= 0 THEN <<>> ELSE <<Hole>> \o Holes(n - 1)

SetAt(out, i, c) ==
    IF i < Len(out) THEN [out EXCEPT ![i + 1] = c]
    ELSE out \o Holes(i - Len(out)) \o <<c>>

\* out.join(''): holes contribute nothing
Join(out) == SelectSeq(out, LAMBDA x : x # Hole)

IsLineTerminator(c) == c = "\n" \/ c = "\r"
IsSpaceOrTab(c) == c = " " \/ c = "\t"

\* ---- the masker: stripCommentsAndStrings ---------------------------------
\* The scanner state: index i, the array out, the block-comment depth and
\* the loop the scanner is in ("top" is the outer while loop).
MaskInit(t) == [i |-> 0, out |-> t, depth |-> 0, mode |-> "top"]

\* topStep taking a single "/" for the start of a line comment
topStepSingleSlash(t, st) ==
    LET i == st.i IN
    IF At(t, i) = "/"
    THEN [st EXCEPT !.mode = "line"]
    ELSE IF At(t, i) = "\""
    THEN [st EXCEPT !.out = SetAt(st.out, i, " "), !.i = i + 1, !.mode = "str"]
    ELSE IF At(t, i) = "'" /\ (i = 0 \/ At(t, i - 1) # "$")
    THEN [st EXCEPT !.out = SetAt(st.out, i, " "), !.i = i + 1, !.mode = "sym"]
    ELSE [st EXCEPT !.i = i + 1]

\* topStep without the look-behind for "$" in the symbol test
topStepAnyQuote(t, st) ==
    LET i == st.i IN
    IF At(t, i) = "/" /\ At(t, i + 1) = "/"
    THEN [st EXCEPT !.mode = "line"]
    ELSE IF At(t, i) = "/" /\ At(t, i + 1) = "*"
    THEN [st EXCEPT !.depth = 1,
                    !.out = SetAt(SetAt(st.out, i, " "), i + 1, " "),
                    !.i = i + 2,
                    !.mode = "block"]
    ELSE IF At(t, i) = "\""
    THEN [st EXCEPT !.out = SetAt(st.out, i, " "), !.i = i + 1, !.mode = "str"]
    ELSE IF At(t, i) = "'"
    THEN [st EXCEPT !.out = SetAt(st.out, i, " "), !.i = i + 1, !.mode = "sym"]
    ELSE [st EXCEPT !.i = i + 1]

\* one test of the outer loop's if-chain at position i (i < length)
topStep(t, st) ==
    LET i == st.i IN
    IF At(t, i) = "/" /\ At(t, i + 1) = "/"
    THEN [st EXCEPT !.mode = "line"]
    ELSE IF At(t, i) = "/" /\ At(t, i + 1) = "*"
    THEN [st EXCEPT !.depth = 1,
                    !.out = SetAt(SetAt(st.out, i, " "), i + 1, " "),
                    !.i = i + 2,
                    !.mode = "block"]
    ELSE IF At(t, i) = "\""
    THEN [st EXCEPT !.out = SetAt(st.out, i, " "), !.i = i + 1, !.mode = "str"]
    ELSE IF At(t, i) = "'" /\ (i = 0 \/ At(t, i - 1) # "$")
    THEN [st EXCEPT !.out = SetAt(st.out, i, " "), !.i = i + 1, !.mode = "sym"]
    ELSE [st EXCEPT !.i = i + 1]

\* the line-comment loop giving way to a string that opens on the line
lineStepStopsAtQuote(t, st) ==
    LET i == st.i IN
    IF i < Len(t) /\ ~IsLineTerminator(At(t, i)) /\ At(t, i) # "\""
    THEN [st EXCEPT !.out = SetAt(st.out, i, " "), !.i = i + 1]
    ELSE [st EXCEPT !.mode = "top"]

\* one test of the line-comment loop
lineStep(t, st) ==
    LET i == st.i IN
    IF i < Len(t) /\ ~IsLineTerminator(At(t, i))
    THEN [st EXCEPT !.out = SetAt(st.out, i, " "), !.i = i + 1]
    ELSE [st EXCEPT !.mode = "top"]

\* the block-comment loop without i++ on an ordinary character
blockStepNoAdvance(t, st) ==
    LET i == st.i IN
    IF i < Len(t) /\ st.depth > 0
    THEN IF At(t, i) = "/" /\ At(t, i + 1) = "*"
         THEN [st EXCEPT !.out = SetAt(SetAt(st.out, i, " "), i + 1, " "),
                         !.i = i + 2, !.depth = st.depth + 1]
         ELSE IF At(t, i) = "*" /\ At(t, i + 1) = "/"
         THEN [st EXCEPT !.out = SetAt(SetAt(st.out, i, " "), i + 1, " "),
                         !.i = i + 2, !.depth = st.depth - 1]
         ELSE [st EXCEPT !.out = IF ~IsLineTerminator(At(t, i))
                                  THEN SetAt(st.out, i, " ") ELSE st.out]
    ELSE [st EXCEPT !.mode = "top"]

\* the block-comment loop without nesting: an inner "/*" is an ordinary pair
blockStepFlat(t, st) ==
    LET i == st.i IN
    IF i < Len(t) /\ st.depth > 0
    THEN IF At(t, i) = "*" /\ At(t, i + 1) = "/"
         THEN [st EXCEPT !.out = SetAt(SetAt(st.out, i, " "), i + 1, " "),
                         !.i = i + 2, !.depth = st.depth - 1]
         ELSE [st EXCEPT !.out = IF ~IsLineTerminator(At(t, i))
                                  THEN SetAt(st.out, i, " ") ELSE st.out,
                         !.i = i + 1]
    ELSE [st EXCEPT !.mode = "top"]

\* one test of the block-comment loop
blockStep(t, st) ==
    LET i == st.i IN
    IF i < Len(t) /\ st.depth > 0
    THEN IF At(t, i) = "/" /\ At(t, i + 1) = "*"
         THEN [st EXCEPT !.out = SetAt(SetAt(st.out, i, " "), i + 1, " "),
                         !.i = i + 2, !.depth = st.depth + 1]
         ELSE IF At(t, i) = "*" /\ At(t, i + 1) = "/"
         THEN [st EXCEPT !.out = SetAt(SetAt(st.out, i, " "), i + 1, " "),
                         !.i = i + 2, !.depth = st.depth - 1]
         ELSE [st EXCEPT !.out = IF ~IsLineTerminator(At(t, i))
                                  THEN SetAt(st.out, i, " ") ELSE st.out,
                         !.i = i + 1]
    ELSE [st EXCEPT !.mode = "top"]

\* quotedBody without the i < text.length test before the second write
quotedBodyUnguarded(t, st) ==
    LET esc == At(t, st.i) = "\\"
        o1 == IF esc THEN SetAt(st.out, st.i, " ") ELSE st.out
        i1 == IF esc THEN st.i + 1 ELSE st.i
        o2 == IF ~IsLineTerminator(At(t, i1)) THEN SetAt(o1, i1, " ") ELSE o1
    IN [st EXCEPT !.out = o2, !.i = i1 + 1]

\* quotedBody blanking the escaped character whatever it is
quotedBodyBlankEscaped(t, st) ==
    LET esc == At(t, st.i) = "\\"
        o1 == IF esc THEN SetAt(st.out, st.i, " ") ELSE st.out
        i1 == IF esc THEN st.i + 1 ELSE st.i
        o2 == IF i1 < Len(t) /\ (esc \/ ~IsLineTerminator(At(t, i1)))
              THEN SetAt(o1, i1, " ") ELSE o1
    IN [st EXCEPT !.out = o2, !.i = i1 + 1]

\* quotedBody without the backslash test: every character stands for itself
quotedBodyNoEscape(t, st) ==
    [st EXCEPT !.out = IF ~IsLineTerminator(At(t, st.i))
                       THEN SetAt(st.out, st.i, " ") ELSE st.out,
               !.i = st.i + 1]

\* the body of the string loop and of the symbol loop: an optional
\* backslash, then the (possibly escaped) character
quotedBody(t, st) ==
    LET esc == At(t, st.i) = "\\"
        o1 == IF esc THEN SetAt(st.out, st.i, " ") ELSE st.out
        i1 == IF esc THEN st.i + 1 ELSE st.i
        o2 == IF i1 < Len(t) /\ ~IsLineTerminator(At(t, i1))
              THEN SetAt(o1, i1, " ") ELSE o1
    IN [st EXCEPT !.out = o2, !.i = i1 + 1]

\* quotedStep leaving the closing quote in the mask
quotedStepKeepClose(t, st, quote) ==
    LET i == st.i IN
    IF i < Len(t) /\ At(t, i) # quote
    THEN quotedBody(t, st)
    ELSE IF i < Len(t)
    THEN [st EXCEPT !.i = i + 1, !.mode = "top"]
    ELSE [st EXCEPT !.mode = "top"]

\* one test of the string loop (quote = "\"") or the symbol loop (quote = "'")
quotedStep(t, st, quote) ==
    LET i == st.i IN
    IF i < Len(t) /\ At(t, i) # quote
    THEN quotedBody(t, st)
    ELSE IF i < Len(t)
    THEN [st EXCEPT !.out = SetAt(st.out, i, " "), !.i = i + 1, !.mode = "top"]
    ELSE [st EXCEPT !.mode = "top"]

MaskDone(t, st) == st.mode = "top" /\ st.i >= Len(t)

MaskStep(t, st) ==
    CASE st.mode = "top" -> topStep(t, st)
      [] st.mode = "line" -> lineStep(t, st)
      [] st.mode = "block" -> blockStep(t, st)
      [] st.mode = "str" -> quotedStep(t, st, "\"")
      [] st.mode = "sym" -> quotedStep(t, st, "'")

RECURSIVE MaskRun(_, _)
MaskRun(t, st) == IF MaskDone(t, st) THEN st ELSE MaskRun(t, MaskStep(t, st))

stripCommentsAndStrings(t) == Join(MaskRun(t, MaskInit(t)).out)

\* ---- the document API used by findCodeBlock ------------------------------
\* document.positionAt(offset).line: the number of line breaks before offset
RECURSIVE positionAtLine(_, _)
positionAtLine(t, off) ==
    IF off <= 0 THEN 0
    ELSE positionAtLine(t, off - 1) + (IF At(t, off - 1) = "\n" THEN 1 ELSE 0)

\* offset of the first character of the line that holds offset off
RECURSIVE lineStart(_, _)
lineStart(t, off) ==
    IF off <= 0 \/ At(t, off - 1) = "\n" THEN off ELSE lineStart(t, off - 1)

\* offset just after the last character of the line that holds offset off
RECURSIVE lineEnd(_, _)
lineEnd(t, off) ==
    IF off >= Len(t) \/ At(t, off) = "\n" THEN off ELSE lineEnd(t, off + 1)

\* document.lineAt(line).text for the line of offset off (no line break)
lineAtText(t, off) == Substring(t, lineStart(t, off), lineEnd(t, off))

IsTrimmed(c) == c = " " \/ c = "\t" \/ c = "\n" \/ c = "\r"

\* String.prototype.trim
RECURSIVE trimLeft(_)
trimLeft(s) == IF s # <<>> /\ IsTrimmed(Head(s)) THEN trimLeft(Tail(s)) ELSE s

RECURSIVE trimRight(_)
trimRight(s) ==
    IF s # <<>> /\ IsTrimmed(s[Len(s)]) THEN trimRight(SubSeq(s, 1, Len(s) - 1)) ELSE s

trim(s) == trimRight(trimLeft(s))

\* ---- extension.js: stripSCCommentsAndStrings ------------------------------
\* the loops of the function, each run to its end; a loop returns the index
\* and the buffer it leaves
\* the line-comment loop stopping at "\n" only
scLineEndsAtNewline(c) == c = "\n"

\* text[i] !== '\n' && text[i] !== '\r' of the line-comment loop, negated
scLineEnds(c) == c = "\n" \/ c = "\r"

RECURSIVE scLineComment(_, _, _)
scLineComment(t, out, i) ==
    IF i < Len(t) /\ ~scLineEnds(At(t, i))
    THEN scLineComment(t, SetAt(out, i, " "), i + 1)
    ELSE [i |-> i, out |-> out]

RECURSIVE scBlockComment(_, _, _, _)
scBlockComment(t, out, i, depth) ==
    IF i < Len(t) /\ depth > 0
    THEN IF At(t, i) = "/" /\ At(t, i + 1) = "*"
         THEN scBlockComment(t, SetAt(SetAt(out, i, " "), i + 1, " "), i + 2, depth + 1)
         ELSE IF At(t, i) = "*" /\ At(t, i + 1) = "/"
         THEN scBlockComment(t, SetAt(SetAt(out, i, " "), i + 1, " "), i + 2, depth - 1)
         ELSE scBlockComment(t, IF At(t, i) # "\n" /\ At(t, i) # "\r" THEN SetAt(out, i, " ") ELSE out,
                             i + 1, depth)
    ELSE [i |-> i, out |-> out]

\* the string loop (quote = "\"") and the symbol loop (quote = "'") with the
\* statement after the loop
RECURSIVE scQuoted(_, _, _, _)
scQuoted(t, out, i, quote) ==
    IF i < Len(t) /\ At(t, i) # quote
    THEN LET esc == At(t, i) = "\\"
             o1 == IF esc THEN SetAt(out, i, " ") ELSE out
             i1 == IF esc THEN i + 1 ELSE i
             o2 == IF i1 < Len(t) /\ At(t, i1) # "\n" /\ At(t, i1) # "\r"
                   THEN SetAt(o1, i1, " ") ELSE o1
         IN scQuoted(t, o2, i1 + 1, quote)
    ELSE IF i < Len(t) THEN [i |-> i + 1, out |-> SetAt(out, i, " ")]
    ELSE [i |-> i, out |-> out]

\* the outer loop
RECURSIVE scOuter(_, _, _)
scOuter(t, out, i) ==
    IF i >= Len(t) THEN out
    ELSE LET r == IF At(t, i) = "/" /\ At(t, i + 1) = "/"
                  THEN scLineComment(t, out, i)
                  ELSE IF At(t, i) = "/" /\ At(t, i + 1) = "*"
                  THEN scBlockComment(t, SetAt(SetAt(out, i, " "), i + 1, " "), i + 2, 1)
                  ELSE IF At(t, i) = "\""
                  THEN scQuoted(t, SetAt(out, i, " "), i + 1, "\"")
                  ELSE IF At(t, i) = "'" /\ (i = 0 \/ At(t, i - 1) # "$")
                  THEN scQuoted(t, SetAt(out, i, " "), i + 1, "'")
                  ELSE [i |-> i + 1, out |-> out]
         IN scOuter(t, r.out, r.i)

stripSCCommentsAndStrings(t) == Join(scOuter(t, t, 0))

\* ---- extension.js: bracket matching and selection -------------------------
OPEN == <<"(", "[", "{">>
CLOSE == <<")", "]", "}">>

\* String.prototype.indexOf and includes for a single character
indexOf(str, c) ==
    IF \E k \in 1 .. Len(str) : str[k] = c
    THEN (CHOOSE k \in 1 .. Len(str) : str[k] = c) - 1
    ELSE -1

includes(str, c) == indexOf(str, c) # -1

\* buildBracketSelection returned null, or was not called
NoSelection == [start |-> -1, end |-> -1]

\* the forward loop of findMatchingBracketOffset from index i on
RECURSIVE scanForward(_, _, _, _, _)
scanForward(s, i, open, close, depth) ==
    IF i >= Len(s) THEN -1
    ELSE IF At(s, i) = open THEN scanForward(s, i + 1, open, close, depth + 1)
    ELSE IF At(s, i) = close
    THEN IF depth - 1 = 0 THEN i ELSE scanForward(s, i + 1, open, close, depth - 1)
    ELSE scanForward(s, i + 1, open, close, depth)

\* the backward loop of findMatchingBracketOffset from index i down
RECURSIVE scanBackward(_, _, _, _, _)
scanBackward(s, i, close, open, depth) ==
    IF i < 0 THEN -1
    ELSE IF At(s, i) = close THEN scanBackward(s, i - 1, close, open, depth + 1)
    ELSE IF At(s, i) = open
    THEN IF depth - 1 = 0 THEN i ELSE scanBackward(s, i - 1, close, open, depth - 1)
    ELSE scanBackward(s, i - 1, close, open, depth)

\* the closing character taken to be ")" for every kind of bracket
closeCharAlwaysParen(openIdx) == ")"

\* const closeChar = CLOSE[openIdx]
closeCharOf(openIdx) == CLOSE[openIdx + 1]

\* const openChar = OPEN[closeIdx]
openCharOf(closeIdx) == OPEN[closeIdx + 1]

findMatchingBracketOffset(t, clickOffset, ch) ==
    LET openIdx == indexOf(OPEN, ch)
        closeIdx == indexOf(CLOSE, ch)
    IN IF openIdx = -1 /\ closeIdx = -1 THEN -1
       ELSE IF openIdx # -1
       THEN scanForward(stripSCCommentsAndStrings(t), clickOffset, ch, closeCharOf(openIdx), 0)
       ELSE scanBackward(stripSCCommentsAndStrings(t), clickOffset, ch, openCharOf(closeIdx), 0)

\* the loop of buildBracketSelection over the candidate offsets left
RECURSIVE selectionFrom(_, _)
selectionFrom(t, candidates) ==
    IF candidates = <<>> THEN NoSelection
    ELSE LET o == Head(candidates)
             ch == At(t, o)
         IN IF ~includes(OPEN, ch) /\ ~includes(CLOSE, ch)
            THEN selectionFrom(t, Tail(candidates))
            ELSE LET m == findMatchingBracketOffset(t, o, ch) IN
                 IF m = -1 THEN selectionFrom(t, Tail(candidates))
                 ELSE [start |-> IF includes(OPEN, ch) THEN o ELSE m,
                       end |-> (IF includes(OPEN, ch) THEN m ELSE o) + 1]

\* the selection as a pair of offsets: positionAt is one-to-one on them
buildBracketSelection(t, cursorOffset) ==
    LET inText(o) == o >= 0 /\ o < Len(t) IN
    selectionFrom(t, SelectSeq(<<cursorOffset, cursorOffset - 1>>, inText))

\* ---- the block locator: findCodeBlock ------------------------------------
Null == [i |-> -1, j |-> -1]

RECURSIVE isStartOfLineFrom(_, _)
isStartOfLineFrom(t, j) ==
    IF j < 0 THEN TRUE
    ELSE IF IsLineTerminator(At(t, j)) THEN TRUE
    ELSE IF IsSpaceOrTab(At(t, j)) THEN isStartOfLineFrom(t, j - 1)
    ELSE FALSE

\* isStartOfLine looking at the preceding character only
isStartOfLineOneBack(t, index) ==
    index = 0 \/ IsLineTerminator(At(t, index - 1)) \/ IsSpaceOrTab(At(t, index - 1))

\* isStartOfLine reading the masked copy instead of the text
isStartOfLineOnMask(t, index) == isStartOfLineFrom(stripCommentsAndStrings(t), index - 1)

isStartOfLine(t, index) == isStartOfLineFrom(t, index - 1)

RECURSIVE findMatchingClosingFrom(_, _, _)
findMatchingClosingFrom(s, i, depth) ==
    IF i >= Len(s) THEN -1
    ELSE IF At(s, i) = "(" THEN findMatchingClosingFrom(s, i + 1, depth + 1)
    ELSE IF At(s, i) = ")"
    THEN IF depth - 1 = 0 THEN i ELSE findMatchingClosingFrom(s, i + 1, depth - 1)
    ELSE findMatchingClosingFrom(s, i + 1, depth)

\* findMatchingClosing counting "[" as an opening parenthesis
findMatchingClosingAnyOpen(s, startIndex) ==
    LET opened(j) == Cardinality({m \in startIndex .. j : At(s, m) = "(" \/ At(s, m) = "["})
        closed(j) == Cardinality({m \in startIndex .. j : At(s, m) = ")"})
        ends == {j \in startIndex .. Len(s) - 1 : At(s, j) = ")" /\ opened(j) = closed(j)}
    IN IF ends = {} THEN -1 ELSE CHOOSE j \in ends : \A m \in ends : j <= m

\* findMatchingClosing without the depth counter: the first ")" closes
RECURSIVE findFirstClosing(_, _)
findFirstClosing(s, startIndex) ==
    IF startIndex >= Len(s) THEN -1
    ELSE IF At(s, startIndex) = ")" THEN startIndex
    ELSE findFirstClosing(s, startIndex + 1)

findMatchingClosing(s, startIndex) == findMatchingClosingFrom(s, startIndex, 0)

RECURSIVE isValidRegionEndFrom(_, _)
isValidRegionEndFrom(s, i) ==
    IF i >= Len(s) THEN TRUE
    ELSE IF IsSpaceOrTab(At(s, i)) THEN isValidRegionEndFrom(s, i + 1)
    ELSE IsLineTerminator(At(s, i)) \/ At(s, i) = ";"

\* isValidRegionEnd looking for a terminator or ";" anywhere after the ")"
RECURSIVE isValidRegionEndLoose(_, _)
isValidRegionEndLoose(s, endIndex) ==
    IF endIndex + 1 >= Len(s) THEN TRUE
    ELSE IF IsLineTerminator(At(s, endIndex + 1)) \/ At(s, endIndex + 1) = ";" THEN TRUE
    ELSE isValidRegionEndLoose(s, endIndex + 1)

isValidRegionEnd(s, endIndex) == isValidRegionEndFrom(s, endIndex + 1)

\* the candidate test with depth < 0
depthAllowsStrict(depth) == depth < 0

\* depth <= 0 of the candidate test
depthAllows(depth) == depth <= 0

\* the close test without the line comparison: any closed block is accepted
closeAcceptedAlways(t, closeIndex, off) == TRUE

\* the close test with closePos.line <= position.line
closeAcceptedEarlier(t, closeIndex, off) ==
    closeIndex >= off \/ positionAtLine(t, closeIndex) <= positionAtLine(t, off)

\* closeIndex >= offset || closePos.line === position.line
closeAccepted(t, closeIndex, off) ==
    closeIndex >= off \/ positionAtLine(t, closeIndex) = positionAtLine(t, off)

\* the assignment guarded by result === null: the first block found is kept
assignResultOnce(old, new) == IF old = Null THEN new ELSE old

\* result = text.substring(i, closeIndex + 1): the new block replaces the old
assignResult(old, new) == new

\* the test made at a "(" found at offset i with the depth already lowered
isCandidate(t, s, off, i, depth) ==
    /\ isStartOfLine(t, i)
    /\ depthAllows(depth)
    /\ LET closeIndex == findMatchingClosing(s, i) IN
         /\ closeIndex # -1
         /\ isValidRegionEnd(s, closeIndex)
         /\ closeAccepted(t, closeIndex, off)

\* the backward scan; acc.result is the variable result (as offsets i, j),
\* acc.hist the blocks assigned to it so far, in order
RECURSIVE scanBack(_, _, _, _, _, _)
scanBack(t, s, off, i, depth, acc) ==
    IF i < 0 THEN acc
    ELSE IF At(s, i) = ")" THEN scanBack(t, s, off, i - 1, depth + 1, acc)
    ELSE IF At(s, i) = "("
    THEN IF isCandidate(t, s, off, i, depth - 1)
         THEN LET blk == [i |-> i, j |-> findMatchingClosing(s, i)] IN
              scanBack(t, s, off, i - 1, depth - 1,
                       [result |-> assignResult(acc.result, blk),
                        hist |-> Append(acc.hist, blk)])
         ELSE scanBack(t, s, off, i - 1, depth - 1, acc)
    ELSE scanBack(t, s, off, i - 1, depth, acc)

\* findCodeBlock's scan over a given masked copy s of t
locate(t, s, off) == scanBack(t, s, off, off, 0, [result |-> Null, hist |-> <<>>])

\* return result, without the line fallback
orNothing(t, off, r) ==
    IF r = Null THEN [kind |-> "null", val |-> <<>>]
    ELSE [kind |-> "str", val |-> Substring(t, r.i, r.j + 1)]

\* result ?? document.lineAt(position.line).text.trim()
orLineText(t, off, r) ==
    IF r = Null THEN [kind |-> "str", val |-> trim(lineAtText(t, off))]
    ELSE [kind |-> "str", val |-> Substring(t, r.i, r.j + 1)]

\* findCodeBlock(document, position) with offset = document.offsetAt(position)
\* the scan over the unmasked text
unmaskedCopy(t) == t

\* const stripped = stripCommentsAndStrings(text)
maskedCopy(t) == stripCommentsAndStrings(t)

findCodeBlockScan(t, off) == locate(t, maskedCopy(t), off)

findCodeBlock(t, off) == orLineText(t, off, findCodeBlockScan(t, off).result)

\* ---- the state machine ---------------------------------------------------
NotCalled == [kind |-> "idle", val |-> <<>>]


\* no call of the masker under way
NoScan == [i |-> 0, out |-> <<>>, depth |-> 0, mode |-> "top"]

Init ==
    /\ text = <<>>
    /\ offset = 0
    /\ stripped = <<>>
    /\ cands = <<>>
    /\ region = Null
    /\ result = NotCalled
    /\ called = "none"
    /\ scan = NoScan
    /\ scanTop = 0
    /\ sclangProcess = 0
    /\ procs = <<>>
    /\ timers = <<>>
    /\ written = <<>>
    /\ calls = 0
    /\ bracketChar = ""
    /\ matchOffset = -1
    /\ selection = NoSelection
    /\ sclangBar = FALSE
    /\ shown = {}

\* the user types the character c at the end of the document
Type(c) ==
    /\ text' = Append(text, c)
    /\ offset' = Len(text) + 1
    /\ stripped' = <<>>
    /\ cands' = <<>>
    /\ region' = Null
    /\ result' = NotCalled
    /\ called' = "none"
    /\ scan' = NoScan
    /\ scanTop' = 0
    /\ bracketChar' = ""
    /\ matchOffset' = -1
    /\ selection' = NoSelection
    /\ UNCHANGED procVars

TypeLoc == \E c \in LocChars : Len(text) < MaxLen /\ Type(c)
TypeWs == \E c \in WsChars : Len(text) < MaxLen /\ Type(c)
TypeLit == \E c \in LitChars : Len(text) < MaxLitLen /\ Type(c)
TypeMask == \E c \in MaskChars : Len(text) < MaxMaskLen /\ Type(c)
TypeNest == \E c \in NestChars : Len(text) < MaxNestLen /\ Type(c)
TypeBrk == \E c \in BrkChars : Len(text) < MaxBrkLen /\ Type(c)
TypeSel == \E c \in SelChars : Len(text) < MaxSelLen /\ Type(c)
TypeRegion == \E c \in RegionChars : Len(text) < MaxRegionLen /\ Type(c)
\* the masker runs to completion: no edit arrives while a call is under way
TypeScan == \E c \in ScanChars : called # "scanning" /\ Len(text) < MaxScanLen /\ Type(c)

\* findCodeBlock dropping the process handle on its way
FindCodeBlockCallDroppingHandle ==
    /\ called = "none"
    /\ \E s \in {maskedCopy(text)} :
       \E o \in 0 .. Len(text) :
       \E sc \in {locate(text, s, o)} :
         /\ called' = "find"
         /\ offset' = o
         /\ stripped' = s
         /\ cands' = sc.hist
         /\ region' = sc.result
         /\ result' = orLineText(text, o, sc.result)
         /\ text' = text
         /\ sclangProcess' = 0
         /\ UNCHANGED <<scan, scanTop, procs, timers, written, calls, sclangBar, shown>>
         /\ UNCHANGED selVars

\* findCodeBlock is called on the edited document with the cursor at offset o.
\* A second call on the same document reaches no state that a first call
\* cannot reach, so calls are taken from the edited state only.
FindCodeBlockCall ==
    /\ called = "none"
    /\ \E s \in {maskedCopy(text)} :
       \E o \in 0 .. Len(text) :
       \E sc \in {locate(text, s, o)} :
         /\ called' = "find"
         /\ offset' = o
         /\ stripped' = s
         /\ cands' = sc.hist
         /\ region' = sc.result
         /\ result' = orLineText(text, o, sc.result)
         /\ text' = text
         /\ UNCHANGED <<scan, scanTop>>
         /\ UNCHANGED procVars
         /\ UNCHANGED selVars

\* stripCommentsAndStrings is called on the document text
StripCall ==
    /\ called = "none"
    /\ called' = "strip"
    /\ stripped' = stripCommentsAndStrings(text)
    /\ cands' = <<>>
    /\ region' = Null
    /\ result' = NotCalled
    /\ UNCHANGED <<text, offset, scan, scanTop>>
    /\ UNCHANGED procVars
    /\ UNCHANGED selVars

\* findMatchingBracketOffset is called on the character at offset o
MatchCall ==
    /\ called = "none"
    /\ \E o \in 0 .. Len(text) - 1 :
         /\ called' = "match"
         /\ offset' = o
         /\ bracketChar' = At(text, o)
         /\ matchOffset' = findMatchingBracketOffset(text, o, At(text, o))
    /\ stripped' = stripSCCommentsAndStrings(text)
    /\ UNCHANGED <<text, cands, region, result, scan, scanTop, selection>>
    /\ UNCHANGED procVars

\* buildBracketSelection is called with the cursor at offset o
SelectCall ==
    /\ called = "none"
    /\ \E o \in 0 .. Len(text) :
         /\ called' = "select"
         /\ offset' = o
         /\ selection' = buildBracketSelection(text, o)
    /\ stripped' = stripSCCommentsAndStrings(text)
    /\ UNCHANGED <<text, cands, region, result, scan, scanTop, bracketChar, matchOffset>>
    /\ UNCHANGED procVars

\* stripCommentsAndStrings, one loop test at a time: the call starts
ScanStart ==
    /\ called = "none"
    /\ called' = "scanning"
    /\ scan' = MaskInit(text)
    /\ scanTop' = 0
    /\ UNCHANGED <<text, offset, stripped, cands, region, result>>
    /\ UNCHANGED procVars
    /\ UNCHANGED selVars

\* one test of the loop the call is in, with the body it admits; scanTop is
\* the index at which the current pass of the outer loop began
ScanStep ==
    /\ called = "scanning"
    /\ ~MaskDone(text, scan)
    /\ scan' = MaskStep(text, scan)
    /\ scanTop' = IF scan.mode = "top" THEN scan.i ELSE scanTop
    /\ UNCHANGED <<text, offset, stripped, cands, region, result, called>>
    /\ UNCHANGED procVars
    /\ UNCHANGED selVars

\* return out.join('')
ScanReturn ==
    /\ called = "scanning"
    /\ MaskDone(text, scan)
    /\ called' = "strip"
    /\ stripped' = Join(scan.out)
    /\ UNCHANGED <<text, offset, cands, region, result, scan, scanTop>>
    /\ UNCHANGED procVars
    /\ UNCHANGED selVars

\* ---- sc.ts: the sclang process and executeBlock --------------------------
\* document.uri.fsPath of the editors a command can be run in
untitled == <<"u", "n", "t", "i", "t", "l", "e", "d">>
Paths ==
    { untitled \o <<"-", "1">>,
      <<"/", "a", ".", "s", "c", "d">> }

\* String.prototype.startsWith
startsWith(s, p) == Len(s) >= Len(p) /\ SubSeq(s, 1, Len(p)) = p

\* the prelude of executeBlock, <<>> for null; the paths need no escape in
\* JSON.stringify
preludeOf(filePath) ==
    IF filePath # <<>> /\ ~startsWith(filePath, untitled)
    THEN <<"thisProcess.nowExecutingPath = ", "\"">> \o filePath \o <<"\"", ";">>
    ELSE <<>>

\* sclangProcess && !sclangProcess.killed
isSclangRunning == sclangProcess # 0 /\ ~procs[sclangProcess].killed

\* a process whose handlers have run for the last time; nothing reads it again
Gone == [alive |-> FALSE, killed |-> FALSE, errored |-> FALSE, fallback |-> FALSE]

\* a child process as spawn returns it
NewProc(isFallback) == [alive |-> TRUE, killed |-> FALSE, errored |-> FALSE, fallback |-> isFallback]

\* sendCode writing the code as it is given
sendCodeUntrimmed(h, log, code, silent, part, call) ==
    IF h = 0 THEN log
    ELSE IF trim(code) = <<>> THEN log
    ELSE Append(log, [proc |-> h, text |-> code,
                      end |-> IF silent THEN "x1b" ELSE "x0c",
                      part |-> part, call |-> call])

\* sendCode(code, silent) with the process handle h: the writes to stdin are
\* kept in log; part and call tell which statement of which executeBlock
\* call a write came from
sendCode(h, log, code, silent, part, call) ==
    IF h = 0 THEN log
    ELSE LET cleanCode == trim(code) IN
         IF cleanCode = <<>> THEN log
         ELSE Append(log, [proc |-> h, text |-> cleanCode,
                           end |-> IF silent THEN "x1b" ELSE "x0c",
                           part |-> part, call |-> call])

\* the two sendCode calls of executeBlock in the other order
sendBlockThenPrelude(h, log, prelude, code, call) ==
    sendCode(h, sendCode(h, log, code, FALSE, "block", call), prelude, TRUE, "prelude", call)

\* the error message sendCode shows with the process handle h
notRunningError(h) == IF h = 0 THEN {"sclang is not running"} ELSE {}

\* sendCode(prelude, true); sendCode(wrappedCode);
sendPreludeThenBlock(h, log, prelude, code, call) ==
    sendCode(h, sendCode(h, log, prelude, TRUE, "prelude", call), code, FALSE, "block", call)

\* the code executeBlock takes from the editor: selection from a to b
selectedCode(t, a, b) ==
    IF a = b
    THEN LET r == findCodeBlock(t, b) IN
         IF r.kind = "null" THEN lineAtText(t, b) ELSE r.val
    ELSE Substring(t, IF a < b THEN a ELSE b, IF a < b THEN b ELSE a)

\* executeBlock(editor), up to its return or its setTimeout; ok is whether
\* startSclang finds and spawns sclang. No more processes are spawned than
\* MaxCalls.
ExecuteBlock ==
    /\ calls < MaxCalls
    /\ \E filePath \in Paths, a \in 0 .. Len(text), b \in 0 .. Len(text), ok \in BOOLEAN :
        LET code == selectedCode(text, a, b)
            prelude == preludeOf(filePath)
            call == [id |-> calls + 1, path |-> filePath, blank |-> trim(code) = <<>>]
        IN
        /\ calls' = calls + 1
        /\ IF isSclangRunning
           THEN /\ ok
                /\ written' = IF prelude # <<>>
                              THEN sendPreludeThenBlock(sclangProcess, written, prelude, code, call)
                              ELSE sendCode(sclangProcess, written, code, FALSE, "block", call)
                /\ UNCHANGED <<sclangProcess, procs, timers>>
           ELSE IF ok /\ Len(procs) < MaxCalls
           THEN /\ procs' = Append(procs, NewProc(FALSE))
                /\ sclangProcess' = Len(procs) + 1
                /\ timers' = Append(timers, [prelude |-> prelude, code |-> code, call |-> call])
                /\ UNCHANGED written
           ELSE /\ ~ok
                /\ UNCHANGED <<sclangProcess, procs, timers, written>>
    /\ UNCHANGED <<sclangBar, shown>>
    /\ UNCHANGED docVars

\* the callback of the oldest pending setTimeout runs
TimerFire ==
    /\ timers # <<>>
    /\ LET t == Head(timers) IN
       written' = IF t.prelude # <<>>
                  THEN sendPreludeThenBlock(sclangProcess, written, t.prelude, t.code, t.call)
                  ELSE sendCode(sclangProcess, written, t.code, FALSE, "block", t.call)
    /\ timers' = Tail(timers)
    /\ shown' = shown \cup notRunningError(sclangProcess)
    /\ UNCHANGED <<sclangProcess, procs, calls, sclangBar>>
    /\ UNCHANGED docVars

\* the 'exit' handler of process p
ProcExit ==
    /\ \E p \in 1 .. Len(procs) :
        /\ procs[p].alive
        /\ procs' = [procs EXCEPT ![p] = Gone]
    /\ sclangProcess' = 0
    /\ UNCHANGED <<timers, written, calls, sclangBar, shown>>
    /\ UNCHANGED docVars

\* the 'error' handler of process p; fb is whether a fallback executable is
\* tried
ProcError ==
    /\ \E p \in 1 .. Len(procs), fb \in BOOLEAN :
        /\ procs[p].alive /\ ~procs[p].errored
        /\ IF fb /\ ~procs[p].fallback /\ Len(procs) < MaxCalls
           THEN /\ procs' = Append([procs EXCEPT ![p].errored = TRUE], NewProc(TRUE))
                /\ sclangProcess' = Len(procs) + 1
           ELSE /\ ~fb
                /\ procs' = [procs EXCEPT ![p].errored = TRUE]
                /\ sclangProcess' = 0
    /\ UNCHANGED <<timers, written, calls, sclangBar, shown>>
    /\ UNCHANGED docVars

\* stopSclang() that kills the process and keeps the handle
stopSclangKeepingHandle ==
    IF isSclangRunning
    THEN [procs |-> [procs EXCEPT ![sclangProcess].killed = TRUE], handle |-> sclangProcess]
    ELSE [procs |-> procs, handle |-> sclangProcess]

\* stopSclang(): what it leaves as processes and as handle
stopSclang ==
    IF isSclangRunning
    THEN [procs |-> [procs EXCEPT ![sclangProcess].killed = TRUE], handle |-> 0]
    ELSE [procs |-> procs, handle |-> sclangProcess]

\* the command stopSCLang: sc.stopSclang(); updateSclangBar(false)
StopSclang ==
    /\ procs' = stopSclang.procs
    /\ sclangProcess' = stopSclang.handle
    /\ sclangBar' = FALSE
    /\ UNCHANGED <<timers, written, calls, shown>>
    /\ UNCHANGED docVars

\* startSclang(): what it returns and what it leaves as processes and as
\* handle; found is whether findSclangPath finds the executable and spawn
\* does not throw
startSclang(found) ==
    IF isSclangRunning
    THEN [ok |-> TRUE, procs |-> procs, handle |-> sclangProcess]
    ELSE IF ~found
    THEN [ok |-> FALSE, procs |-> procs, handle |-> sclangProcess]
    ELSE [ok |-> TRUE, procs |-> Append(procs, NewProc(FALSE)), handle |-> Len(procs) + 1]

\* the command startSCLang with the outcome found of the search for sclang:
\* const ok = await sc.startSclang(); if (ok) updateSclangBar(true). No more
\* processes are spawned than MaxCalls.
StartSclangFinding(found) ==
    /\ isSclangRunning \/ ~found \/ Len(procs) < MaxCalls
    /\ procs' = startSclang(found).procs
    /\ sclangProcess' = startSclang(found).handle
    /\ sclangBar' = (startSclang(found).ok \/ sclangBar)
    /\ UNCHANGED <<timers, written, calls, shown>>
    /\ UNCHANGED docVars

StartSclang == \E found \in BOOLEAN : StartSclangFinding(found)

\* the command toggleSCLang
ToggleSclang == IF isSclangRunning THEN StopSclang ELSE StartSclang

\* the codes sendCode is called with
SendCodes == {<<>>, <<" ", "\n">>, <<" ", "a", "\n">>}

\* a call of sendCode that is no part of executeBlock
DirectCall(code) == [id |-> 0, path |-> <<>>, blank |-> trim(code) = <<>>]

\* sendCode(code, silent), called on its own
SendCode(code, silent) ==
    /\ calls < MaxCalls
    /\ calls' = calls + 1
    /\ written' = sendCode(sclangProcess, written, code, silent, "direct", DirectCall(code))
    /\ shown' = shown \cup notRunningError(sclangProcess)
    /\ UNCHANGED <<sclangProcess, procs, timers, sclangBar>>
    /\ UNCHANGED docVars

SendCodeCall == \E code \in SendCodes, silent \in BOOLEAN : SendCode(code, silent)

\* the user opens a document in the editor
OpenDocument ==
    /\ text = <<>>
    /\ \E d \in Docs : text' = d /\ offset' = Len(d)
    /\ UNCHANGED <<stripped, cands, region, result, called, scan, scanTop>>
    /\ UNCHANGED procVars
    /\ UNCHANGED selVars

\* the two functions called while blocks are executed and sclang comes and goes
NextPure ==
    OpenDocument \/ ExecuteBlock \/ TimerFire \/ StopSclang \/ FindCodeBlockCall \/ StripCall

NextSend ==
    StartSclang \/ StopSclang \/ ToggleSclang \/ ProcExit \/ ProcError \/ SendCodeCall
\* the commands of the extension and the events of the interpreter
NextBar ==
    \/ StartSclang \/ StopSclang \/ ToggleSclang
    \/ ExecuteBlock \/ TimerFire \/ ProcExit \/ ProcError

NextProc == OpenDocument \/ ExecuteBlock \/ TimerFire \/ ProcExit \/ ProcError \/ StopSclang

NextLoc == TypeLoc \/ FindCodeBlockCall
NextWs == TypeWs \/ FindCodeBlockCall
NextLit == TypeLit \/ FindCodeBlockCall
NextMask == TypeMask \/ StripCall
NextNest == TypeNest \/ StripCall
NextRegion == TypeRegion \/ StripCall
NextSel == TypeSel \/ MatchCall \/ SelectCall
NextBrk == TypeBrk \/ FindCodeBlockCall
NextScan == TypeScan \/ ScanStart \/ ScanStep \/ ScanReturn

SpecLoc == Init /\ [][NextLoc]_vars
SpecWs == Init /\ [][NextWs]_vars
SpecLit == Init /\ [][NextLit]_vars
SpecMask == Init /\ [][NextMask]_vars
SpecNest == Init /\ [][NextNest]_vars
SpecRegion == Init /\ [][NextRegion]_vars
SpecSel == Init /\ [][NextSel]_vars
SpecBrk == Init /\ [][NextBrk]_vars
SpecScan == Init /\ [][NextScan]_vars
SpecProc == Init /\ [][NextProc]_vars
SpecSend == Init /\ [][NextSend]_vars
SpecBar == Init /\ [][NextBar]_vars
SpecPure == Init /\ [][NextPure]_vars
\* a call that has started is run on by the engine until it returns
SpecScanFair == SpecScan /\ WF_vars(ScanStep) /\ WF_vars(ScanReturn)

\* ---- notions the properties are stated in --------------------------------
Offsets(s) == 0 .. Len(s) - 1

\* number of "(" minus number of ")" of s in offsets a .. b
RECURSIVE ParenBalance(_, _, _)
ParenBalance(s, a, b) ==
    IF b < a THEN 0
    ELSE ParenBalance(s, a, b - 1)
         + (IF At(s, b) = "(" THEN 1 ELSE IF At(s, b) = ")" THEN -1 ELSE 0)

\* the ")" at j is the first place where the parentheses opened at i balance
Matches(s, i, j) ==
    /\ At(s, i) = "("
    /\ At(s, j) = ")"
    /\ i <= j
    /\ ParenBalance(s, i, j) = 0
    /\ \A k \in i .. j - 1 : ParenBalance(s, i, k) # 0

\* only spaces and tabs lie between offset i and the start of its line
LineInitial(t, i) ==
    \A k \in 0 .. i - 1 :
        IsSpaceOrTab(At(t, k)) \/ \E m \in k .. i - 1 : IsLineTerminator(At(t, m))

\* after offset j only spaces and tabs come before a line break, ";" or the end
TrailingOk(s, j) ==
    \A k \in j + 1 .. Len(s) - 1 :
        \/ \E m \in j + 1 .. k - 1 : ~IsSpaceOrTab(At(s, m))
        \/ IsSpaceOrTab(At(s, k))
        \/ IsLineTerminator(At(s, k))
        \/ At(s, k) = ";"

\* offsets a <= b lie on one line
OnSameLine(t, a, b) == \A k \in a .. b - 1 : ~IsLineTerminator(At(t, k))

\* a block that is line-initial, closed and properly ended
Evaluable(t, s, i, j) == Matches(s, i, j) /\ LineInitial(t, i) /\ TrailingOk(s, j)

\* the valid candidates of a backward scan from the cursor (steps 2 to 5)
ValidCandidates(t, s, off) ==
    LET opens == {i \in 0 .. off : At(s, i) = "(" /\ ParenBalance(s, i, off) >= 0}
        closes(i) == {j \in i .. Len(s) - 1 :
                         /\ Evaluable(t, s, i, j)
                         /\ (j >= off \/ OnSameLine(t, j, off))}
    IN UNION {{[i |-> i, j |-> j] : j \in closes(i)} : i \in opens}

\* the trimmed text of the line that holds offset off
TrimmedLine(t, off) ==
    LET first == CHOOSE a \in 0 .. off :
                    /\ OnSameLine(t, a, off)
                    /\ (a = 0 \/ IsLineTerminator(At(t, a - 1)))
        last == CHOOSE b \in off .. Len(t) :
                    /\ OnSameLine(t, off, b)
                    /\ (b = Len(t) \/ IsLineTerminator(At(t, b)))
        inked == {k \in first .. last - 1 : ~IsSpaceOrTab(At(t, k))}
    IN IF inked = {} THEN <<>>
       ELSE SubSeq(t, (CHOOSE k \in inked : \A m \in inked : k <= m) + 1,
                      (CHOOSE k \in inked : \A m \in inked : m <= k) + 1)

Found == called = "find"
Block == called = "find" /\ region # Null

\* t with the character at offset k replaced by c
Replace(t, k, c) == [t EXCEPT ![k + 1] = c]

\* ---- properties ----------------------------------------------------------

\* C1: with the cursor at c inside a line-initial, closed and properly ended
\* block i .. j (i <= c <= j) that no such block further left encloses,
\* findCodeBlock returns the original text from i through j.
C1_EnclosingBlockReturned ==
    Found =>
        \A i \in 0 .. offset : \A j \in offset .. Len(text) - 1 :
            ( /\ Evaluable(text, stripped, i, j)
              /\ ~\E i2 \in 0 .. i - 1 : \E j2 \in j + 1 .. Len(text) - 1 :
                     Evaluable(text, stripped, i2, j2) )
            => /\ region = [i |-> i, j |-> j]
               /\ result = [kind |-> "str", val |-> SubSeq(text, i + 1, j + 1)]

\* the four-line block of the specification, cursor on an inner line
C1_Witness ==
    /\ Found
    /\ text = <<"(", "\n", "a", ";", "\n", ")">>
    /\ offset = 3
    /\ result.val = text

\* C2: when the scan records several valid candidates, the returned block is
\* the one with the leftmost "(" and it contains every other valid candidate.
C2_OutermostWins ==
    Found /\ Len(cands) >= 2 =>
        LET recorded == {cands[n] : n \in 1 .. Len(cands)} IN
        /\ recorded = ValidCandidates(text, stripped, offset)
        /\ region \in recorded
        /\ \A b \in recorded : region.i <= b.i /\ b.j <= region.j

\* two nested line-initial blocks, the cursor in the inner one
C2_Witness ==
    /\ Found
    /\ Len(cands) >= 2
    /\ cands[1].i <= offset /\ offset <= cands[1].j
    /\ region.i < cands[1].i

\* C3 as stated: a returned block [i, j+1) encloses the cursor.
C3_BlockEnclosesCursor ==
    Block => region.i <= offset /\ offset <= region.j + 1

\* C3 as amended: a returned block starts at or before the cursor and either
\* encloses it or has its closing ")" on the cursor's line.
C3_BlockReachesCursorLine ==
    Block =>
        /\ region.i <= offset
        /\ (offset <= region.j + 1 \/ OnSameLine(text, region.j, offset))

\* a block that closes before the cursor, further left on the cursor's line
C3_Witness == Block /\ offset > region.j + 1

\* C4: every returned block starts at a "(" with only spaces and tabs before
\* it on its line; a "(" that is not line-initial never starts the result.
C4_LineInitialStart ==
    Block => At(text, region.i) = "(" /\ LineInitial(text, region.i)

\* the cursor inside closed, properly ended parentheses that are not
\* line-initial: the trimmed line is returned
C4_Witness ==
    /\ Found
    /\ region = Null
    /\ \E i \in 0 .. offset : \E j \in offset .. Len(text) - 1 :
           /\ Matches(stripped, i, j)
           /\ TrailingOk(stripped, j)
           /\ ~LineInitial(text, i)
    /\ result.val = TrimmedLine(text, offset)

\* C5: after the ")" of a returned block the masked text has only spaces and
\* tabs before a line break, ";" or the end of the text.
C5_TrailingContentValid ==
    Block => TrailingOk(stripped, region.j)

\* the cursor inside a line-initial closed block whose ")" is followed by
\* other code: that block is not returned
C5_Witness ==
    /\ Found
    /\ \E i \in 0 .. offset : \E j \in offset .. Len(text) - 1 :
           /\ Matches(stripped, i, j)
           /\ LineInitial(text, i)
           /\ ~TrailingOk(stripped, j)
           /\ region # [i |-> i, j |-> j]
    /\ region = Null

\* C6: j is the first offset at which the parentheses opened at i balance in
\* the masked text, and the result is the original text i .. j, which begins
\* with "(" and ends with ")".
C6_BalancedRegion ==
    Block =>
        /\ Matches(stripped, region.i, region.j)
        /\ result = [kind |-> "str", val |-> SubSeq(text, region.i + 1, region.j + 1)]
        /\ Head(result.val) = "("
        /\ result.val[Len(result.val)] = ")"

\* a returned block with a nested pair of parentheses inside
C6_Witness ==
    /\ Block
    /\ \E k \in region.i + 1 .. region.j - 1 : At(stripped, k) = ")"

\* C7: a block whose ")" lies before the cursor is returned only if that ")"
\* is on the cursor's line.
C7_ClosedBlockSameLine ==
    Block /\ region.j < offset => OnSameLine(text, region.j, offset)

\* the block on the cursor's line is returned although it closes before the
\* cursor, while an evaluable block that closed on an earlier line is not
C7_Witness ==
    /\ Block
    /\ region.j < offset
    /\ \E i \in Offsets(text) : \E j \in Offsets(text) :
           /\ Evaluable(text, stripped, i, j)
           /\ j < region.i
           /\ ~OnSameLine(text, j, offset)

\* C8: findCodeBlock returns a string, never null: the trimmed line of the
\* cursor when there is no valid candidate, the block otherwise.
C8_NeverNull ==
    Found =>
        /\ result.kind = "str"
        /\ LET vc == ValidCandidates(text, stripped, offset) IN
           IF vc = {}
           THEN region = Null /\ result.val = TrimmedLine(text, offset)
           ELSE region \in vc /\ result.val = SubSeq(text, region.i + 1, region.j + 1)

\* the empty document with the cursor at offset 0 gives the empty string
C8_Witness ==
    /\ Found
    /\ text = <<>>
    /\ offset = 0
    /\ result = [kind |-> "str", val |-> <<>>]

\* C9: a "(", ")" or ";" inside a comment or a string does not influence
\* findCodeBlock: with any other character in its place the same block, or
\* the same fallback, is found; the ends of a returned block are never inside
\* a comment or a string.
C9_MaskedDelimitersIgnored ==
    Found =>
        /\ \A k \in Offsets(text) :
               ( /\ At(text, k) \in {"(", ")", ";"}
                 /\ At(stripCommentsAndStrings(text), k) = " " )
               => findCodeBlockScan(Replace(text, k, "a"), offset).result = region
        /\ region # Null =>
               /\ At(stripCommentsAndStrings(text), region.i) = "("
               /\ At(stripCommentsAndStrings(text), region.j) = ")"

\* a returned block that spans a ")" lying inside a comment or a string
C9_Witness ==
    /\ Block
    /\ \E k \in region.i + 1 .. region.j - 1 :
           At(text, k) = ")" /\ At(stripped, k) = " "

\* C10: the mask has the length of the text and holds at each offset the
\* character of the text or one space.
C10_MaskSameLength ==
    called = "strip" =>
        /\ Len(stripped) = Len(text)
        /\ \A k \in Offsets(text) : At(stripped, k) = At(text, k) \/ At(stripped, k) = " "

\* a text that ends with a backslash inside an unterminated string or symbol
C10_Witness ==
    /\ called = "strip"
    /\ Len(text) >= 2
    /\ At(text, Len(text) - 1) = "\\"
    /\ At(stripped, Len(text) - 1) = " "


Stripped == called = "strip"

\* C11: every line terminator of the text stands unchanged at its offset in
\* the mask, also inside comments, strings and symbols and after a backslash.
C11_LineTerminatorsKept ==
    Stripped =>
        \A k \in Offsets(text) : IsLineTerminator(At(text, k)) => At(stripped, k) = At(text, k)

\* a line break directly after a backslash inside a string or symbol, and a
\* blanked character after it
C11_Witness ==
    /\ Stripped
    /\ \E k \in Offsets(text) :
           /\ At(text, k) = "\\" /\ At(stripped, k) = " "
           /\ IsLineTerminator(At(text, k + 1))
           /\ At(stripped, k + 1) = At(text, k + 1)
           /\ At(text, k + 2) = "a" /\ At(stripped, k + 2) = " "


\* ---- the regions of section 4.1, stated on the text alone ----------------
\* the construct that opens at offset k of t, "none" when none does
OpenerAt(t, k) ==
    IF At(t, k) = "/" /\ At(t, k + 1) = "/" THEN "line"
    ELSE IF At(t, k) = "/" /\ At(t, k + 1) = "*" THEN "block"
    ELSE IF At(t, k) = "\"" THEN "str"
    ELSE IF At(t, k) = "'" /\ At(t, k - 1) # "$" THEN "sym"
    ELSE "none"

\* p is the first offset of t at or after from where a construct opens
FirstOpener(t, from, p) ==
    /\ p >= from
    /\ OpenerAt(t, p) # "none"
    /\ \A k \in from .. p - 1 : OpenerAt(t, k) = "none"

Least(S) == CHOOSE k \in S : \A m \in S : k <= m

\* the number of offsets directly before k, not below lo, that all satisfy P
RunBefore(P(_), lo, k) ==
    CHOOSE n \in 0 .. k - lo :
        /\ \A m \in k - n .. k - 1 : P(m)
        /\ (n = k - lo \/ ~P(k - n - 1))

\* a line comment opened at p ends before the next line terminator
LineCommentEnd(t, p) ==
    Least({k \in p .. Len(t) : k = Len(t) \/ IsLineTerminator(At(t, k))})

\* a string or symbol opened at p ends after the next quote that an even
\* number of backslashes precedes
QuotedEnd(t, p) ==
    LET isBackslash(m) == At(t, m) = "\\"
        closers == {k \in p + 1 .. Len(t) - 1 :
                       At(t, k) = At(t, p) /\ RunBefore(isBackslash, p + 1, k) % 2 = 0}
    IN IF closers = {} THEN Len(t) ELSE Least(closers) + 1

\* a block comment opened at p: its body is read as "/*" and "*/" tokens,
\* taken left to right without overlap; it ends after the "*/" that closes
\* one more than were opened
NestedEnd(t, p) ==
    LET isPair(m) == (At(t, m) = "/" /\ At(t, m + 1) = "*") \/ (At(t, m) = "*" /\ At(t, m + 1) = "/")
        isToken(m) == isPair(m) /\ RunBefore(isPair, p + 2, m) % 2 = 0
        opened(k) == Cardinality({m \in p + 2 .. k : isToken(m) /\ At(t, m) = "/"})
        closed(k) == Cardinality({m \in p + 2 .. k : isToken(m) /\ At(t, m) = "*"})
        ends == {k \in p + 2 .. Len(t) - 2 : isToken(k) /\ closed(k) = opened(k) + 1}
    IN IF ends = {} THEN Len(t) ELSE Least(ends) + 2

\* the end of the region that opens at p
RegionEnd(t, p) ==
    CASE OpenerAt(t, p) = "line" -> LineCommentEnd(t, p)
      [] OpenerAt(t, p) = "block" -> NestedEnd(t, p)
      [] OpenerAt(t, p) \in {"str", "sym"} -> QuotedEnd(t, p)

\* s holds, from a up to b - 1, blanks in place of t, line terminators kept
BlankedBetween(t, s, a, b) ==
    \A k \in a .. b - 1 :
        At(s, k) = (IF IsLineTerminator(At(t, k)) THEN At(t, k) ELSE " ")

\* s agrees with t from a up to b - 1
SameBetween(t, s, a, b) == \A k \in a .. b - 1 : At(s, k) = At(t, k)

\* the text from offset e on
Rest(t, e) == SubSeq(t, e + 1, Len(t))

\* C12: block comments nest. The first block comment of a text is blanked
\* (line terminators kept) up to and including the "*/" that brings the depth
\* back to zero, or to the end of the text when there is none; the text after
\* it is masked as a text of its own.
C12_BlockCommentsNest ==
    Stripped =>
        \A p \in Offsets(text) :
            FirstOpener(text, 0, p) /\ OpenerAt(text, p) = "block" =>
                LET e == NestedEnd(text, p) IN
                /\ SameBetween(text, stripped, 0, p)
                /\ BlankedBetween(text, stripped, p, e)
                /\ Rest(stripped, e) = stripCommentsAndStrings(Rest(text, e))

\* a comment inside a comment, both closed
C12_Witness ==
    /\ Stripped
    /\ text = <<"/", "*", "/", "*", "*", "/", "*", "/">>
    /\ stripped = <<" ", " ", " ", " ", " ", " ", " ", " ">>


\* k is a backslash of the literal opened at p that escapes the character
\* after it: an even number of backslashes of the literal precedes it
Escaping(t, p, k) ==
    LET isBackslash(m) == At(t, m) = "\\" IN
    /\ k > p /\ k < QuotedEnd(t, p)
    /\ isBackslash(k)
    /\ RunBefore(isBackslash, p + 1, k) % 2 = 0

FirstLiteral(t, p) == FirstOpener(t, 0, p) /\ OpenerAt(t, p) \in {"str", "sym"}

\* C13 as stated: inside a string or symbol a backslash and the character
\* after it are both blanked
C13_EscapedCharBlanked ==
    Stripped =>
        \A p \in Offsets(text) : FirstLiteral(text, p) =>
            \A k \in Offsets(text) : Escaping(text, p, k) /\ k + 1 < Len(text) =>
                At(stripped, k) = " " /\ At(stripped, k + 1) = " "

\* C13: inside a string or symbol a backslash escapes the next character: the
\* backslash is blanked, the character after it is blanked unless it is a line
\* terminator (which is kept), and that character never ends the literal; the
\* literal ends after the next unescaped quote or at the end of the text, and
\* the text after it is masked as a text of its own.
C13_EscapeRules ==
    Stripped =>
        \A p \in Offsets(text) : FirstLiteral(text, p) =>
            LET e == QuotedEnd(text, p) IN
            /\ SameBetween(text, stripped, 0, p)
            /\ BlankedBetween(text, stripped, p, e)
            /\ Rest(stripped, e) = stripCommentsAndStrings(Rest(text, e))

\* an escaped quote inside a string that ends at the next quote, and a
\* character after the string that is kept
C13_Witness ==
    /\ Stripped
    /\ \E p \in Offsets(text) :
           /\ FirstLiteral(text, p)
           /\ Escaping(text, p, p + 1)
           /\ At(text, p + 2) = At(text, p)
           /\ QuotedEnd(text, p) = p + 4
           /\ At(text, p + 4) = "a" /\ At(stripped, p + 4) = "a"
           /\ BlankedBetween(text, stripped, p, p + 4)


\* the kind of the region that covers offset k when the regions of t are
\* taken left to right from offset from on, each from the first opener at or
\* after the end of the one before; "none" at top level
RECURSIVE KindAt(_, _, _)
KindAt(t, from, k) ==
    IF from > k THEN "none"
    ELSE IF OpenerAt(t, from) = "none" THEN KindAt(t, from + 1, k)
    ELSE IF k < RegionEnd(t, from) THEN OpenerAt(t, from)
    ELSE KindAt(t, RegionEnd(t, from), k)

\* k holds a single quote directly after a "$"
DollarQuote(t, k) == At(t, k) = "'" /\ At(t, k - 1) = "$"

\* C14 as stated: a single quote directly after "$", outside comments and
\* double-quoted strings, is left unchanged in the mask
C14_DollarQuoteKept ==
    Stripped =>
        \A k \in Offsets(text) :
            DollarQuote(text, k) /\ KindAt(text, 0, k) \notin {"line", "block", "str"} =>
                At(stripped, k) = "'"

\* C14: a single quote directly after "$" that lies outside comments, strings
\* and symbols is left unchanged and opens no symbol (the character after it
\* is masked as top-level text); inside an open symbol it is the closing
\* quote: it is blanked and the symbol ends with it.
C14_DollarQuoteAtTopLevel ==
    Stripped =>
        \A k \in Offsets(text) :
            DollarQuote(text, k) /\ KindAt(text, 0, k) \in {"none", "sym"} =>
                /\ At(stripped, k) = (IF KindAt(text, 0, k) = "none" THEN "'" ELSE " ")
                /\ k + 1 < Len(text) /\ OpenerAt(text, k + 1) = "none" =>
                       At(stripped, k + 1) = At(text, k + 1)

\* a character literal at top level followed by a kept character
C14_Witness ==
    /\ Stripped
    /\ \E k \in Offsets(text) :
           /\ DollarQuote(text, k) /\ KindAt(text, 0, k) = "none"
           /\ At(stripped, k) = "'"
           /\ At(text, k + 1) = "a" /\ At(stripped, k + 1) = "a"


\* t from offset a up to b - 1 with all but the line terminators blanked
Blanked(t, a, b) ==
    [n \in 1 .. b - a |-> IF IsLineTerminator(At(t, a + n - 1)) THEN At(t, a + n - 1) ELSE " "]

\* the mask that the regions of the text determine, from offset from on
RECURSIVE RegionMaskFrom(_, _)
RegionMaskFrom(t, from) ==
    IF from >= Len(t) THEN <<>>
    ELSE IF OpenerAt(t, from) = "none" THEN <<At(t, from)>> \o RegionMaskFrom(t, from + 1)
    ELSE Blanked(t, from, RegionEnd(t, from)) \o RegionMaskFrom(t, RegionEnd(t, from))

RegionMask(t) == RegionMaskFrom(t, 0)

\* C15: the first construct that opens at a top-level position consumes its
\* whole region, and an opener of any construct inside that region starts no
\* region of its own: the mask blanks exactly the regions taken left to
\* right, each from the first opener after the end of the one before.
C15_FirstOpenerWins ==
    Stripped => stripped = RegionMask(text)

\* a string opener inside a line comment: the next line is kept
C15_Witness ==
    /\ Stripped
    /\ text = <<"/", "/", "\"", "\n", "a">>
    /\ stripped = <<" ", " ", " ", "\n", "a">>

NoOpener(t) == \A k \in Offsets(t) : OpenerAt(t, k) = "none"

\* C16: a text in which no comment, string or symbol opens is its own mask.
C16_PlainTextUnchanged ==
    Stripped /\ NoOpener(text) => stripped = text

\* a text of full length with a character literal and a lone slash
C16_Witness ==
    /\ Stripped /\ NoOpener(text) /\ stripped = text
    /\ Len(text) = MaxMaskLen
    /\ \E k \in Offsets(text) : DollarQuote(text, k)
    /\ \E k \in Offsets(text) : At(text, k) = "/"

\* C17: masking a mask changes nothing.
C17_Idempotent ==
    Stripped => stripCommentsAndStrings(stripped) = stripped

\* a mask with a blanked string between kept slashes
C17_Witness ==
    /\ Stripped
    /\ text = <<"/", "\"", "a", "\"", "/">>
    /\ stripped = <<"/", " ", " ", " ", "/">>


\* C18: the masker terminates. Every pass of an inner loop moves the scan
\* index forward, every pass of the outer loop ends at a larger index than it
\* began with, the index never moves back, and every call that has started
\* returns a result; unterminated comments, strings and symbols and a
\* trailing backslash included.
C18_Terminates ==
    /\ [][ScanStep =>
            /\ scan'.i >= scan.i
            /\ (scan.mode # "top" /\ scan'.mode = scan.mode) => scan'.i > scan.i
            /\ scan'.mode = "top" => scan'.i > scanTop']_vars
    /\ (called = "scanning") ~> (called = "strip")

\* a call returned on a string that ends in a backslash: the index has
\* passed the end of the text
C18_Witness ==
    /\ called = "strip"
    /\ text = <<"\"", "\\">>
    /\ scan.i = 3 /\ scan.mode = "top"
    /\ stripped = <<" ", " ">>


\* ---- executeBlock and the interpreter's stdin -----------------------------
\* a file path not starting with "untitled"
HasFilePath(path) ==
    LET word == <<"u", "n", "t", "i", "t", "l", "e", "d">> IN
    /\ path # <<>>
    /\ \E k \in 1 .. 8 : k > Len(path) \/ path[k] # word[k]

\* the write at place n of the log is the prelude of its call, sent silently
PreludeAt(n) ==
    /\ written[n].part = "prelude"
    /\ written[n].end = "x1b"
    /\ written[n].text = <<"thisProcess.nowExecutingPath = ", "\"">> \o written[n].call.path \o <<"\"", ";">>

\* the writes at places n and n + 1 are the prelude and the block of one
\* call, to one process
PreludeAndBlockAt(n) ==
    /\ n >= 1 /\ n + 1 <= Len(written)
    /\ PreludeAt(n)
    /\ written[n + 1].part = "block" /\ written[n + 1].end = "x0c"
    /\ written[n + 1].call = written[n].call
    /\ written[n + 1].proc = written[n].proc

\* C20 as stated: for a call on a document with a file path the prelude is
\* written directly before the block text; without one only the block is
\* written
C20_PreludeBeforeBlock ==
    \A n \in 1 .. Len(written) :
        IF HasFilePath(written[n].call.path)
        THEN IF written[n].part = "prelude" THEN PreludeAndBlockAt(n) ELSE PreludeAndBlockAt(n - 1)
        ELSE written[n].part = "block"

\* C20: for a call on a document with a file path every write of the block
\* text directly follows the silent write of the call's prelude to the same
\* process, and every prelude is directly followed by its block unless the
\* block text is empty after trimming, in which case the prelude is written
\* alone; this holds for writes made at once and for writes made by the timer
\* after a start. A call without such a path writes the block only.
C20_PreludeBeforeNonBlankBlock ==
    \A n \in 1 .. Len(written) :
        IF HasFilePath(written[n].call.path)
        THEN IF written[n].part = "prelude"
             THEN IF written[n].call.blank THEN PreludeAt(n) ELSE PreludeAndBlockAt(n)
             ELSE PreludeAndBlockAt(n - 1)
        ELSE written[n].part = "block" /\ written[n].end = "x0c"

\* the second call wrote at once to the process the first call started, and
\* the timer of the first call wrote after it
C20_Witness ==
    /\ Len(written) = 4 /\ timers = <<>>
    /\ written[1].call.id = 2 /\ PreludeAndBlockAt(1)
    /\ written[3].call.id = 1 /\ PreludeAndBlockAt(3)
    /\ written[1].proc = written[3].proc


SameRegionWith(c) ==
    \A k \in Offsets(text) :
        At(text, k) = "[" => findCodeBlockScan(Replace(text, k, c), offset).result = region

\* C21 as stated: replacing a bracket by any character that is not a
\* parenthesis, quote, slash, semicolon or whitespace leaves the region as it is
C21_BracketsInert ==
    Found => \A c \in {"a", "]", "{", "*", "\\"} : SameRegionWith(c)

\* C21: replacing a bracket by a character that is neither a parenthesis,
\* semicolon or whitespace nor one the masker reacts to (quote, slash,
\* asterisk, backslash, dollar) leaves the region as it is: brackets take no
\* part in the depth counters.
C21_BracketsInertForPlainChars ==
    Found => \A c \in {"a", "]", "{"} : SameRegionWith(c)

\* a block with an unclosed "[" inside is found
C21_Witness ==
    /\ Block
    /\ \E k \in Offsets(text) : At(text, k) = "[" /\ region.i < k /\ k < region.j
    /\ SameRegionWith("a")


\* C22: line-initiality is decided on the text, not on the mask. A "(" that
\* the mask shows with only blanks before it on its line, but that a comment
\* or literal precedes on that line in the text, is never a candidate open
\* and never the start of the region returned.
C22_LineInitialOnText ==
    Found =>
        \A k \in Offsets(text) :
            At(stripped, k) = "(" /\ LineInitial(stripped, k) /\ ~LineInitial(text, k) =>
                /\ region.i # k
                /\ \A n \in 1 .. Len(cands) : cands[n].i # k

\* a closed pair of parentheses after an empty string on the same line: the
\* line's text is returned instead of the block
C22_Witness ==
    /\ Found
    /\ text = <<"\"", "\"", "(", ")">>
    /\ stripped = <<" ", " ", "(", ")">>
    /\ offset = 3
    /\ region = Null
    /\ result.val = text


\* ---- extension.js: the second masker --------------------------------------
\* C23: stripSCCommentsAndStrings of extension.js and stripCommentsAndStrings
\* of sc.ts return the same mask for every text.
C23_MaskersAgree ==
    Stripped => stripSCCommentsAndStrings(text) = stripped

\* a text with a carriage return in which a comment or literal is blanked
C23_Witness ==
    /\ Stripped
    /\ stripSCCommentsAndStrings(text) = stripped
    /\ \E k \in Offsets(text) : At(text, k) = "\r"
    /\ \E k \in Offsets(text) : At(text, k) = "/" /\ At(stripped, k) = " "
    /\ \E k \in Offsets(text) : At(text, k) = "a" /\ At(stripped, k) = "a"


\* ---- extension.js: bracket matching ---------------------------------------
Greatest(S) == CHOOSE k \in S : \A m \in S : k >= m

\* the number of offsets from a to b at which s holds c
CountOf(s, c, a, b) == Cardinality({k \in a .. b : At(s, k) = c})

\* the bracket that closes, or opens, the pair of c
PartnerOf(c) ==
    CASE c = "(" -> ")" [] c = "[" -> "]" [] c = "{" -> "}"
      [] c = ")" -> "(" [] c = "]" -> "[" [] c = "}" -> "{"

\* C24: for an opening bracket outside comments and literals the matcher
\* returns the least later offset up to which the mask holds as many
\* brackets of its kind as closing ones of its kind; for a closing bracket
\* the greatest earlier offset, counted backward; -1 when there is none and
\* for a character that is no bracket.
C24_MatchIsFirstBalance ==
    called = "match" =>
        LET m == RegionMask(text)
            c == bracketChar
            later == {j \in offset + 1 .. Len(text) - 1 :
                         CountOf(m, c, offset, j) = CountOf(m, PartnerOf(c), offset, j)}
            earlier == {j \in 0 .. offset - 1 :
                           CountOf(m, c, j, offset) = CountOf(m, PartnerOf(c), j, offset)}
        IN IF c \notin {"(", "[", "{", ")", "]", "}"} THEN matchOffset = -1
           ELSE IF At(m, offset) # c THEN TRUE
           ELSE IF c \in {"(", "[", "{"}
           THEN matchOffset = (IF later = {} THEN -1 ELSE Least(later))
           ELSE matchOffset = (IF earlier = {} THEN -1 ELSE Greatest(earlier))

\* a parenthesis matched across a string that holds a closing parenthesis
C24_Witness ==
    /\ called = "match"
    /\ text = <<"(", "\"", ")", "\"", ")">>
    /\ offset = 0 /\ bracketChar = "("
    /\ matchOffset = 4


\* ---- extension.js: bracket selection --------------------------------------
\* the in-text offsets buildBracketSelection tries for the cursor at offset
CursorCandidates == {o \in {offset, offset - 1} : o >= 0 /\ o < Len(text)}

\* C25: every selection runs from an opening bracket outside comments and
\* literals to just after the closing bracket matching it, also outside
\* comments and literals; a bracket at the cursor that lies inside a comment
\* or literal is neither end of the selection.
C25_SelectionIgnoresMaskedBrackets ==
    called = "select" /\ selection # NoSelection =>
        LET m == RegionMask(text)
            s == selection.start
            e == selection.end - 1
        IN /\ At(m, s) \in {"(", "[", "{"}
           /\ At(m, e) = PartnerOf(At(m, s))
           /\ s < e
           /\ CountOf(m, At(m, s), s, e) = CountOf(m, At(m, e), s, e)
           /\ \A o \in CursorCandidates : At(m, o) # At(text, o) => o \notin {s, e}


\* ---- sc.ts: sendCode ------------------------------------------------------
Whitespace == {" ", "\t", "\n", "\r"}

\* c without the whitespace around it: the part of c from its first to its
\* last character that is no whitespace
Core(c) ==
    LET solid == {k \in 1 .. Len(c) : c[k] \notin Whitespace} IN
    IF solid = {} THEN <<>>
    ELSE SubSeq(c, CHOOSE k \in solid : \A n \in solid : k <= n,
                   CHOOSE k \in solid : \A n \in solid : k >= n)

\* C26: sendCode writes exactly the trimmed code and one terminator, form
\* feed normally and escape when silent, to the stdin of the process of the
\* handle; it writes nothing when the trimmed code is empty; without a
\* handle it writes nothing, shows 'sclang is not running' and leaves the
\* handle as it is.
C26_SendCodeWritesTrimmed ==
    [][\A code \in SendCodes, silent \in BOOLEAN :
          SendCode(code, silent) =>
             IF sclangProcess = 0
             THEN /\ written' = written
                  /\ "sclang is not running" \in shown'
                  /\ sclangProcess' = 0
             ELSE /\ shown' = shown
                  /\ sclangProcess' = sclangProcess
                  /\ IF Core(code) = <<>>
                     THEN written' = written
                     ELSE /\ Len(written') = Len(written) + 1
                          /\ SubSeq(written', 1, Len(written)) = written
                          /\ written'[Len(written')].proc = sclangProcess
                          /\ written'[Len(written')].text = Core(code)
                          /\ written'[Len(written')].end = (IF silent THEN "x1b" ELSE "x0c")]_vars

\* a silent sendCode wrote trimmed code to the running interpreter, and a
\* sendCode without a handle showed the message
C26_Witness ==
    /\ \E k \in 1 .. Len(written) :
         /\ written[k].part = "direct" /\ ~written[k].call.blank
         /\ written[k].text = <<"a">> /\ written[k].end = "x1b"
         /\ written[k].proc = sclangProcess
    /\ "sclang is not running" \in shown
    /\ Len(written) = 1 /\ calls = MaxCalls


\* ---- sc.ts: the lifecycle of the interpreter -----------------------------
\* the processes that run and were neither killed by stopSclang nor failed
LiveProcs == {p \in 1 .. Len(procs) : procs[p].alive /\ ~procs[p].killed /\ ~procs[p].errored}

\* C27: the handle is null only if no spawned process that stopSclang did
\* not kill is still alive, so the exit of a stopped process never clears
\* the handle of a process started after it; and no two interpreters run at
\* the same time.
C27_HandleNullOnlyWithoutLiveProcess ==
    /\ sclangProcess = 0 => LiveProcs = {}
    /\ Cardinality(LiveProcs) <= 1

\* C28: startSclang with a running interpreter returns true, spawns nothing
\* and leaves the handle; stopSclang with a running interpreter kills it
\* and sets the handle to null, so that isSclangRunning() is false right
\* after it.
C28_StartNoOpStopClears ==
    [][/\ \A found \in BOOLEAN :
             isSclangRunning /\ StartSclangFinding(found) =>
                 /\ procs' = procs
                 /\ sclangProcess' = sclangProcess
                 /\ sclangBar'
       /\ isSclangRunning /\ StopSclang =>
             /\ Len(procs') = Len(procs)
             /\ procs'[sclangProcess].killed
             /\ \A p \in 1 .. Len(procs) : p # sclangProcess => procs'[p] = procs[p]
             /\ sclangProcess' = 0
             /\ ~isSclangRunning']_vars

\* a second interpreter was started after the first was stopped, and
\* stopped as well
C28_Witness ==
    /\ Len(procs) = 2
    /\ procs[1].killed /\ procs[2].killed /\ procs[2].alive
    /\ sclangProcess = 0
    /\ ~sclangBar


\* ---- sc.ts: the order of delivery ----------------------------------------
\* C29: code reaches stdin in the order of submission: what an earlier
\* executeBlock call wrote as its block is never preceded by the block of a
\* later call.
C29_WrittenInSubmissionOrder ==
    \A j, k \in 1 .. Len(written) :
        j < k /\ written[j].part = "block" /\ written[k].part = "block" =>
            written[j].call.id <= written[k].call.id


\* ---- extension.js: the sclang status bar ----------------------------------
\* C30: between command handlers the status bar shows running exactly when
\* isSclangRunning() is true, whatever start, stop and toggle commands,
\* block executions and exit or error events of the interpreter came
\* before.
C30_BarShowsRunning == sclangBar <=> isSclangRunning

====
